---- MODULE Spec2Model ----
(***************************************************************************)
(* A model of the temporal state machine TSM<StateEnum> of src/src/tsm.ts. *)
(*                                                                         *)
(* The machine's fields are the variables; every public method is one      *)
(* action that runs the whole method, the entry handlers it dispatches and *)
(* the re-entrant calls those handlers make included.  The host's timers   *)
(* (setTimeout / clearTimeout) are the set `scheduled`; a timer that is    *)
(* due is fired by the action Fire.  JavaScript runs every method to       *)
(* completion, so no timer fires inside an action.                         *)
(***************************************************************************)
EXTENDS Integers, Sequences, FiniteSets, TLC

VARIABLES
    initial,          \* TSM._initial
    current,          \* TSM._current
    previous,         \* TSM._previous
    cbMap,            \* TSM._cbMap: state -> list of entry handlers
    transitions,      \* TSM._transitions: state -> Transitions node
    timeoutConfigs,   \* TSM._timeoutConfigs: state -> config
    activeTimers,     \* TSM._activeTimers: state -> timer handle (0: no entry)
    scheduled,        \* the host's pending timers (set by setTimeout)
    added,            \* the edges the caller has asked for (observation)
    last              \* what the last call did, and the states that had a
                      \* pending timer when it began (observation)

vars == <<initial, current, previous, cbMap, transitions, timeoutConfigs,
          activeTimers, scheduled, added, last>>

----------------------------------------------------------------------------
(* The caller's domain.  The states are the values of a numeric enum       *)
(* (enum S { A, B, C } is 0, 1, 2), so the first state is the number 0.     *)

States == {0, 1, 2}

\* The argument of the constructor.
InitialStates == {0}

\* A longest handler list the caller registers for one state.
MaxHandlers == 2

\* The entry handlers a caller registers.  Each is a function (from, to):
\*   hGo1         calls tsm.go(1)
\*   hReset       calls tsm.reset()
\*   hThrowFrom1  throws when from === 1, and does nothing otherwise
\*   hThrow       throws
\*   hNop         returns at once
\* Handlers are those the caller of Spec registers.
Handlers == {"hGo1", "hReset", "hThrowFrom1"}

\* The state the handlers are registered for by the action On.
HandlerStates == {2}

\* The onExpire handlers a caller supplies: eNop returns at once, and eGo1
\* calls tsm.go(1).  ExpireHandlers are those the caller of Spec supplies.
ExpireHandlers == {"eNop"}

Undefined == "undefined"

\* An optional state is a sequence: <<>> is undefined, <<s>> is the state s.
Some(s) == <<s>>
None == <<>>

\* JavaScript's truthiness of an optional state: undefined, 0 and "" are falsy.
Truthy(opt) == opt # None /\ opt[1] # 0

----------------------------------------------------------------------------
(* The machine as one value.  Besides the fields of TSM it carries what a  *)
(* running call has produced so far: the value returned, the exception     *)
(* that is propagating, the handler calls made, the warnings printed, and  *)
(* the number of times the call has moved the machine (epoch).              *)

\* Array.prototype.includes
Includes(seq, x) == \E i \in 1..Len(seq) : seq[i] = x

\* new Transitions(state): both lists empty.  has is Map.has(state).
NoNode == [has |-> FALSE, toStates |-> <<>>, fromStates |-> <<>>]

\* A key of _transitions is a state or, when addTransitions is handed a
\* TransitionOptions object before its last argument, that object: a Map
\* takes any value as a key and tells objects apart by identity.  The n-th
\* object that became a key is a negative number that also holds the loop
\* the object was written with ("true", "false" or "undefined").
LoopCode(loop) == IF loop = "true" THEN 1 ELSE IF loop = "false" THEN 2 ELSE 3

ObjectKey(n, loop) == 0 - (3 * (n - 1) + LoopCode(loop))

IsObject(key) == key < 0

\* The loop an object key was written with.
ObjectLoop(key) ==
    LET code == (((0 - key) - 1) % 3) + 1
    IN  IF code = 1 THEN "true" ELSE IF code = 2 THEN "false" ELSE Undefined

\* The objects that are keys of the map t.
ObjectKeys(t) == {key \in DOMAIN t : IsObject(key)}

\* this._transitions.has(key)
HasNode(t, key) == key \in DOMAIN t /\ t[key].has

\* this._transitions.set(key, new Transitions(key)) when the map has no key.
SetNode(t, key) ==
    IF key \in DOMAIN t THEN [t EXCEPT ![key].has = TRUE]
    ELSE t @@ (key :> [has |-> TRUE, toStates |-> <<>>, fromStates |-> <<>>])

NoConfig == [set |-> FALSE, timeoutMs |-> 0, expireTo |-> None, onExpire |-> Undefined]

\* The machine of the variables, at the start of a call.  calls is the log of
\* the handler calls the call makes, and seen what each handler finds when it
\* reads the machine.
Machine ==
    [initial |-> initial, current |-> current, previous |-> previous,
     cbMap |-> cbMap, transitions |-> transitions,
     timeoutConfigs |-> timeoutConfigs, activeTimers |-> activeTimers,
     scheduled |-> scheduled,
     ret |-> None, exc |-> "none", calls |-> <<>>, seen |-> <<>>,
     warned |-> FALSE, epoch |-> 0]

\* new TSM(initial)
construct(init) ==
    [initial |-> init, current |-> init, previous |-> init,
     cbMap |-> [s \in States |-> <<>>],
     transitions |-> [s \in States |-> NoNode],
     timeoutConfigs |-> [s \in States |-> NoConfig],
     activeTimers |-> [s \in States |-> 0],
     scheduled |-> {},
     ret |-> None, exc |-> "none", calls |-> <<>>, seen |-> <<>>,
     warned |-> FALSE, epoch |-> 0]

\* A faulty addFromState: it records the edge in both directions.
addFromStateBothWays(m, from, to) ==
    LET node(t, s) == IF HasNode(t, s) THEN t ELSE SetNode(t, s)
        out(t, a, b) == IF Includes(t[a].toStates, b) THEN t
                        ELSE [t EXCEPT ![a].toStates = Append(@, b)]
        inc(t, a, b) == IF Includes(t[b].fromStates, a) THEN t
                        ELSE [t EXCEPT ![b].fromStates = Append(@, a)]
        t1 == node(node(m.transitions, from), to)
    IN  [m EXCEPT !.transitions =
            inc(out(inc(out(t1, from, to), from, to), to, from), to, from)]

\* A faulty addFromState: it pushes without looking for the state in the list.
addFromStateAlwaysPush(m, from, to) ==
    LET t0 == m.transitions
        t1 == IF HasNode(t0, from) THEN t0 ELSE SetNode(t0, from)
        t2 == [t1 EXCEPT ![from].toStates = Append(@, to)]
        t3 == IF HasNode(t2, to) THEN t2 ELSE SetNode(t2, to)
    IN  [m EXCEPT !.transitions = [t3 EXCEPT ![to].fromStates = Append(@, from)]]

\* A faulty addFromState: a new state is put at the front of the lists.
addFromStatePrepend(m, from, to) ==
    LET t0 == m.transitions
        t1 == IF HasNode(t0, from) THEN t0 ELSE SetNode(t0, from)
        t2 == IF Includes(t1[from].toStates, to) THEN t1
              ELSE [t1 EXCEPT ![from].toStates = <<to>> \o @]
        t3 == IF HasNode(t2, to) THEN t2 ELSE SetNode(t2, to)
        t4 == IF Includes(t3[to].fromStates, from) THEN t3
              ELSE [t3 EXCEPT ![to].fromStates = <<from>> \o @]
    IN  [m EXCEPT !.transitions = t4]

\* TSM.addFromState
addFromState(m, from, to) ==
    LET t0 == m.transitions
        t1 == IF HasNode(t0, from) THEN t0 ELSE SetNode(t0, from)
        t2 == IF Includes(t1[from].toStates, to) THEN t1
              ELSE [t1 EXCEPT ![from].toStates = Append(@, to)]
        t3 == IF HasNode(t2, to) THEN t2 ELSE SetNode(t2, to)
        t4 == IF Includes(t3[to].fromStates, from) THEN t3
              ELSE [t3 EXCEPT ![to].fromStates = Append(@, from)]
    IN  [m EXCEPT !.transitions = t4]

\* A faulty addTransition: the loop flag is ignored.
addTransitionOneWay(m, from, to, loop) == addFromState(m, from, to)

\* TSM.addTransition
addTransition(m, from, to, loop) ==
    LET m1 == addFromState(m, from, to)
    IN  IF loop THEN addFromState(m1, to, from) ELSE m1

\* An argument of addTransitions after from: a state, or a TransitionOptions
\* object literal whose loop is "true", "false" or Undefined.
StateArg(s) == [isOptions |-> FALSE, state |-> s, loop |-> Undefined]
OptionsArg(loop) == [isOptions |-> TRUE, state |-> 0, loop |-> loop]

RECURSIVE addTransitionsLoop(_, _, _, _, _)

\* The value of an argument of addTransitions: the state, or the object the
\* literal makes, which no key of the map t is.
ArgValue(t, argument) ==
    IF argument.isOptions
    THEN ObjectKey(Cardinality(ObjectKeys(t)) + 1, argument.loop)
    ELSE argument.state

\* The loop of TSM.addTransitions over toStates, from the i-th on.  _to is
\* whatever the caller passed: an options object that is not the last
\* argument is one of the toStates and becomes a key of the map.
addTransitionsLoop(m, from, toStates, loop, i) ==
    IF i > Len(toStates) THEN m
    ELSE LET to == ArgValue(m.transitions, toStates[i])
             m1 == addFromState(m, from, to)
             m2 == IF loop THEN addFromState(m1, to, from) ELSE m1
         IN  addTransitionsLoop(m2, from, toStates, loop, i + 1)

\* TSM.addTransitions: the last argument is the options if it is an object
\* with a loop key; loop is options.loop ?? false.
addTransitions(m, from, args) ==
    LET hasOptions == Len(args) > 0 /\ args[Len(args)].isOptions
        loop == hasOptions /\ args[Len(args)].loop = "true"
        toStates == IF hasOptions THEN SubSeq(args, 1, Len(args) - 1) ELSE args
    IN  addTransitionsLoop(m, from, toStates, loop, 1)

RECURSIVE addPathLoop(_, _, _, _)

\* A faulty loop of addPath: it tests previous for truthiness, not against
\* undefined.
addPathLoopTruthy(m, states, i, prev) ==
    IF i > Len(states) THEN m
    ELSE LET m1 == IF Truthy(prev) THEN addFromState(m, prev[1], states[i]) ELSE m
         IN  addPathLoop(m1, states, i + 1, Some(states[i]))

\* The loop of TSM.addPath from the i-th state on; previous is the local
\* variable, undefined before the first state.
addPathLoop(m, states, i, prev) ==
    IF i > Len(states) THEN m
    ELSE LET m1 == IF prev # None THEN addFromState(m, prev[1], states[i]) ELSE m
         IN  addPathLoop(m1, states, i + 1, Some(states[i]))

\* TSM.addPath
addPath(m, states) == addPathLoop(m, states, 1, None)

\* A faulty canTransition: it looks the target up in the incoming list.
canTransitionIncoming(m, state) ==
    /\ m.transitions[m.current].has
    /\ \E i \in 1..Len(m.transitions[m.current].fromStates) :
          m.transitions[m.current].fromStates[i] = state

\* TSM.canTransition
canTransition(m, state) ==
    /\ m.transitions[m.current].has
    /\ \E i \in 1..Len(m.transitions[m.current].toStates) :
          m.transitions[m.current].toStates[i] = state

\* TSM._getValidTransitions: a copy of the outgoing list of current.
getValidTransitions(m) ==
    IF m.transitions[m.current].has THEN m.transitions[m.current].toStates ELSE <<>>

\* A faulty canTransition: it makes the node of current when there is none.
canTransitionCallMakesNode(m, state) ==
    [m EXCEPT !.transitions[m.current].has = TRUE,
              !.ret = <<canTransition(m, state)>>]

\* TSM.canTransition as a call: the machine it leaves and the boolean it
\* returns.
canTransitionCall(m, state) == [m EXCEPT !.ret = <<canTransition(m, state)>>]

\* TSM.getValidTransitions as a call: the list returned is a new array.
getValidTransitionsCall(m) == [m EXCEPT !.ret = getValidTransitions(m)]

\* The host's setTimeout hands out a handle no live reference holds: the
\* least positive number that is neither pending nor kept in _activeTimers.
NewTimerId(m) ==
    LET used == {t.id : t \in m.scheduled} \cup {m.activeTimers[s] : s \in States}
    IN  CHOOSE i \in 1..(Cardinality(used) + 1) :
            /\ i \notin used
            /\ \A j \in 1..(i - 1) : j \in used

\* The host's clearTimeout: the timer with this handle, if pending, is dropped.
clearTimeout(m, id) ==
    [m EXCEPT !.scheduled = {t \in @ : t.id # id}]

\* A faulty _clearStateTimeout: it forgets the timer and does not cancel it.
clearStateTimerEntryOnly(m, state) ==
    [m EXCEPT !.activeTimers[state] = 0]

\* TSM._clearStateTimeout
clearStateTimer(m, state) ==
    IF m.activeTimers[state] # 0
    THEN [clearTimeout(m, m.activeTimers[state]) EXCEPT !.activeTimers[state] = 0]
    ELSE m

\* A faulty _clearAllTimeouts: it empties the map and cancels no timer.
clearAllTimeoutsMapOnly(m) ==
    [m EXCEPT !.activeTimers = [s \in States |-> 0]]

\* TSM._clearAllTimeouts
clearAllTimeouts(m) ==
    [m EXCEPT !.scheduled = {t \in @ : \A s \in States : t.id # m.activeTimers[s]},
              !.activeTimers = [s \in States |-> 0]]

\* A faulty _startStateTimeout: it does not cancel the timer it replaces.
startStateTimeoutNoClear(m, state, stale) ==
    LET config == m.timeoutConfigs[state]
        id == NewTimerId(m)
    IN  IF ~config.set THEN m
        ELSE [m EXCEPT !.scheduled = @ \cup {[id |-> id, state |-> state,
                                              config |-> config, left |-> stale]},
                       !.activeTimers[state] = id]

\* TSM._startStateTimeout.  The timer keeps the config it was armed with.
\* stale is an observation, not a field of the source: the machine had
\* already been moved on from the visit this timer is armed for.
startStateTimeout(m, state, stale) ==
    LET config == m.timeoutConfigs[state]
        m1 == clearStateTimer(m, state)
        id == NewTimerId(m1)
    IN  IF ~config.set THEN m
        ELSE [m1 EXCEPT !.scheduled = @ \cup {[id |-> id, state |-> state,
                                               config |-> config, left |-> stale]},
                        !.activeTimers[state] = id]

RECURSIVE go(_, _, _)
RECURSIVE dispatch(_, _, _, _)

\* A faulty reset: it forgets the timeout configs as well.
resetForgetsConfigs(m) ==
    LET m1 == clearAllTimeouts(m)
    IN  [m1 EXCEPT !.previous = m1.initial, !.current = m1.initial,
                   !.epoch = @ + 1,
                   !.timeoutConfigs = [s \in States |-> NoConfig]]

\* A faulty reset: it calls the handlers of the initial state, as an entry
\* into it would.
resetNotifies(m) ==
    LET m1 == clearAllTimeouts(m)
        m2 == [m1 EXCEPT !.previous = m1.initial, !.current = m1.initial,
                         !.epoch = @ + 1,
                         !.scheduled = {[t EXCEPT !.left = TRUE] : t \in @}]
        m3 == dispatch(m2, m2.cbMap[m2.initial], 1, m2.initial)
    IN  startStateTimeout(m3, m3.initial, FALSE)

\* TSM.reset
reset(m) ==
    LET m1 == clearAllTimeouts(m)
        m2 == [m1 EXCEPT !.previous = m1.initial, !.current = m1.initial,
                         !.epoch = @ + 1,
                         !.scheduled = {[t EXCEPT !.left = TRUE] : t \in @}]
    IN  startStateTimeout(m2, m2.initial, FALSE)

\* What a handler that reads the machine finds.
Seen(m) ==
    [current |-> m.current, previous |-> m.previous,
     activeTimers |-> m.activeTimers, scheduled |-> m.scheduled]

\* One entry handler called with (from, to).
callHandler(m, h, from, to) ==
    LET m1 == [m EXCEPT !.calls = Append(@, [h |-> h, from |-> from, to |-> to]),
                        !.seen = Append(@, Seen(m))]
    IN  CASE h = "hGo1" -> go(m1, 1, FALSE)
          [] h = "hReset" -> reset(m1)
          [] h = "hThrowFrom1" ->
                IF from = 1 THEN [m1 EXCEPT !.exc = "HandlerError"] ELSE m1
          [] h = "hThrow" -> [m1 EXCEPT !.exc = "HandlerError"]
          [] OTHER -> m1

\* A faulty loop: it returns after the first handler.
dispatchFirstOnly(m, cbs, i, state) ==
    IF i > 1 \/ i > Len(cbs) \/ m.exc # "none" THEN m
    ELSE dispatch(callHandler(m, cbs[i], m.previous, state), cbs, i + 1, state)

\* The loop of TSM.go over the handlers of state, from the i-th on:
\* for (const cb of cbs) cb(this._previous, state).
dispatch(m, cbs, i, state) ==
    IF i > Len(cbs) \/ m.exc # "none" THEN m
    ELSE dispatch(callHandler(m, cbs[i], m.previous, state), cbs, i + 1, state)

\* A faulty rejection: the option is ignored and nothing is thrown.
rejectSilently(m, throwOnInvalid) ==
    [m EXCEPT !.ret = Some(m.current)]

\* TSM.go, the invalid transition: throw if asked to, else return current.
reject(m, throwOnInvalid) ==
    IF throwOnInvalid
    THEN [m EXCEPT !.exc = "InvalidTransition", !.ret = None]
    ELSE [m EXCEPT !.ret = Some(m.current)]

\* A faulty move: previous is assigned after current, and so is the target.
moveCurrentFirst(m, state) ==
    [m EXCEPT !.previous = state, !.current = state,
              !.epoch = @ + 1,
              !.scheduled = {[t EXCEPT !.left = TRUE] : t \in @}]

\* A faulty move: the edge taken is used up.
moveConsumesEdge(m, state) ==
    [m EXCEPT !.previous = m.current, !.current = state,
              !.epoch = @ + 1,
              !.scheduled = {[t EXCEPT !.left = TRUE] : t \in @},
              !.transitions[m.current].toStates =
                  SelectSeq(@, LAMBDA x : x # state)]

\* TSM.go, the move: this._previous = this._current; this._current = state.
\* A move ends the visit every pending timer was armed for.
move(m, state) ==
    [m EXCEPT !.previous = m.current, !.current = state,
              !.epoch = @ + 1,
              !.scheduled = {[t EXCEPT !.left = TRUE] : t \in @}]

\* A faulty go: the handlers are called before the move is made, so a
\* handler that raises leaves the machine in the state it was in.
goDispatchFirst(m, state, throwOnInvalid) ==
    IF ~canTransition(m, state) THEN reject(m, throwOnInvalid)
    ELSE LET m1 == clearStateTimer(m, m.current)
             m2 == dispatch(m1, m1.cbMap[state], 1, state)
             m3 == move(m2, state)
             m4 == startStateTimeout(m3, state, FALSE)
         IN  IF m2.exc # "none" THEN [m2 EXCEPT !.ret = None]
             ELSE [m4 EXCEPT !.ret = Some(m4.current)]

\* A faulty go: the timer of the state entered is armed before its handlers
\* are called.
goArmFirst(m, state, throwOnInvalid) ==
    IF ~canTransition(m, state) THEN reject(m, throwOnInvalid)
    ELSE LET m1 == clearStateTimer(m, m.current)
             m2 == move(m1, state)
             m3 == startStateTimeout(m2, state, FALSE)
             m4 == dispatch(m3, m3.cbMap[state], 1, state)
         IN  IF m4.exc # "none" THEN [m4 EXCEPT !.ret = None]
             ELSE [m4 EXCEPT !.ret = Some(m4.current)]

\* A faulty go: after the handlers it arms the timer of the state entered
\* only if the machine is still in it.
goArmIfCurrent(m, state, throwOnInvalid) ==
    IF ~canTransition(m, state) THEN reject(m, throwOnInvalid)
    ELSE LET m1 == clearStateTimer(m, m.current)
             m2 == move(m1, state)
             m3 == dispatch(m2, m2.cbMap[state], 1, state)
             m4 == IF m3.current = state
                   THEN startStateTimeout(m3, state, FALSE) ELSE m3
         IN  IF m3.exc # "none" THEN [m3 EXCEPT !.ret = None]
             ELSE [m4 EXCEPT !.ret = Some(m4.current)]

\* TSM.go
go(m, state, throwOnInvalid) ==
    IF ~canTransition(m, state) THEN reject(m, throwOnInvalid)
    ELSE LET m1 == clearStateTimer(m, m.current)
             m2 == move(m1, state)
             m3 == dispatch(m2, m2.cbMap[state], 1, state)
             m4 == startStateTimeout(m3, state, m3.epoch # m2.epoch)
         IN  IF m3.exc # "none" THEN [m3 EXCEPT !.ret = None]
             ELSE [m4 EXCEPT !.ret = Some(m4.current)]

\* A faulty on: the handler is pushed without looking for it in the list.
onAlwaysPush(m, to, callback) ==
    [m EXCEPT !.cbMap[to] = Append(@, callback)]

\* TSM.on
on(m, to, callback) ==
    IF Includes(m.cbMap[to], callback) THEN m
    ELSE [m EXCEPT !.cbMap[to] = Append(@, callback)]

\* A faulty setStateTimeout: the config is stored, and the timer of the
\* current state armed, before the options are validated.
setStateTimeoutStoreFirst(m, state, options) ==
    LET m1 == [m EXCEPT !.timeoutConfigs[state] =
                   [set |-> TRUE, timeoutMs |-> options.timeoutMs,
                    expireTo |-> options.expireTo,
                    onExpire |-> options.onExpire]]
        m2 == IF m1.current = state THEN startStateTimeout(m1, state, FALSE) ELSE m1
    IN  IF options.timeoutMs <= 0 THEN [m2 EXCEPT !.exc = "InvalidTimeout"]
        ELSE IF ~Truthy(options.expireTo) /\ options.onExpire = Undefined
        THEN [m2 EXCEPT !.exc = "InvalidTimeout"]
        ELSE m2

\* TSM.setStateTimeout
setStateTimeout(m, state, options) ==
    IF options.timeoutMs <= 0 THEN [m EXCEPT !.exc = "InvalidTimeout"]
    ELSE IF ~Truthy(options.expireTo) /\ options.onExpire = Undefined
    THEN [m EXCEPT !.exc = "InvalidTimeout"]
    ELSE LET m1 == [m EXCEPT !.timeoutConfigs[state] =
                        [set |-> TRUE, timeoutMs |-> options.timeoutMs,
                         expireTo |-> options.expireTo,
                         onExpire |-> options.onExpire]]
         IN  IF m1.current = state THEN startStateTimeout(m1, state, FALSE) ELSE m1

\* A faulty clearStateTimeout: it removes the config and leaves the timer.
clearStateTimeoutConfigOnly(m, state) ==
    [m EXCEPT !.timeoutConfigs[state] = NoConfig]

\* TSM.clearStateTimeout
clearStateTimeout(m, state) ==
    clearStateTimer([m EXCEPT !.timeoutConfigs[state] = NoConfig], state)

\* One onExpire handler called with the expired state.
callExpire(m, h, state) ==
    LET m1 == [m EXCEPT !.calls = Append(@, [h |-> h, from |-> state, to |-> state]),
                        !.seen = Append(@, Seen(m))]
    IN  IF h = "eGo1" THEN go(m1, 1, FALSE) ELSE m1

\* A faulty _handleStateExpiration: after the onExpire handler has returned
\* it goes on to the automatic transition.
handleStateExpirationThenTarget(m, state, config) ==
    IF m.current # state THEN m
    ELSE LET m1 == [m EXCEPT !.activeTimers[state] = 0]
             m2 == IF config.onExpire # Undefined
                   THEN callExpire(m1, config.onExpire, state) ELSE m1
         IN  IF config.expireTo # None /\ m2.exc = "none"
             THEN IF canTransition(m2, config.expireTo[1])
                  THEN go(m2, config.expireTo[1], FALSE)
                  ELSE [m2 EXCEPT !.warned = TRUE]
             ELSE m2

\* A faulty _handleStateExpiration: it does not look at the current state.
handleStateExpirationNoGuard(m, state, config) ==
    LET m1 == [m EXCEPT !.activeTimers[state] = 0]
    IN  IF config.onExpire # Undefined THEN callExpire(m1, config.onExpire, state)
        ELSE IF config.expireTo # None
        THEN IF canTransition(m1, config.expireTo[1])
             THEN go(m1, config.expireTo[1], FALSE)
             ELSE [m1 EXCEPT !.warned = TRUE]
        ELSE m1

\* A faulty _handleStateExpiration: an invalid target raises instead of
\* being warned of.
handleStateExpirationThrows(m, state, config) ==
    IF m.current # state THEN m
    ELSE LET m1 == [m EXCEPT !.activeTimers[state] = 0]
         IN  IF config.onExpire # Undefined THEN callExpire(m1, config.onExpire, state)
             ELSE IF config.expireTo # None
             THEN go(m1, config.expireTo[1], TRUE)
             ELSE m1

\* A faulty _handleStateExpiration: when the machine is still in the state
\* after the handler or the warning, the timer is armed again.
handleStateExpirationRearm(m, state, config) ==
    IF m.current # state THEN m
    ELSE LET m1 == [m EXCEPT !.activeTimers[state] = 0]
             m2 == IF config.onExpire # Undefined
                   THEN callExpire(m1, config.onExpire, state)
                   ELSE IF config.expireTo # None
                   THEN IF canTransition(m1, config.expireTo[1])
                        THEN go(m1, config.expireTo[1], FALSE)
                        ELSE [m1 EXCEPT !.warned = TRUE]
                   ELSE m1
         IN  IF m2.epoch = m.epoch THEN startStateTimeout(m2, state, FALSE) ELSE m2

\* TSM._handleStateExpiration
handleStateExpiration(m, state, config) ==
    IF m.current # state THEN m
    ELSE LET m1 == [m EXCEPT !.activeTimers[state] = 0]
         IN  IF config.onExpire # Undefined THEN callExpire(m1, config.onExpire, state)
             ELSE IF config.expireTo # None
             THEN IF canTransition(m1, config.expireTo[1])
                  THEN go(m1, config.expireTo[1], FALSE)
                  ELSE [m1 EXCEPT !.warned = TRUE]
             ELSE m1

\* The host runs a due timer: it is no longer pending, and its callback runs.
fire(m, t) ==
    handleStateExpiration([m EXCEPT !.scheduled = @ \ {t}], t.state, t.config)

\* An array handed to the caller.  It is either one of the arrays of a node
\* of the machine (transitions.toStates, transitions.fromStates) or a new
\* array with items of its own ([...list], []).
OwnList(state, field) == [own |-> TRUE, state |-> state, field |-> field, items |-> <<>>]

NewList(items) == [own |-> FALSE, state |-> 0, field |-> "", items |-> items]

\* What the caller reads in an array it was handed.
Items(m, list) ==
    IF ~list.own THEN list.items
    ELSE IF list.field = "toStates" THEN m.transitions[list.state].toStates
    ELSE m.transitions[list.state].fromStates

\* What list.push(x), done by the caller on an array it was handed, does to
\* the machine.
push(m, list, x) ==
    IF ~list.own THEN m
    ELSE IF list.field = "toStates"
    THEN [m EXCEPT !.transitions[list.state].toStates = Append(@, x)]
    ELSE [m EXCEPT !.transitions[list.state].fromStates = Append(@, x)]

\* serializeStateMachine, allStates: the keys of _transitions and the members
\* of their lists.
allStates(m) ==
    LET keys == {key \in DOMAIN m.transitions : m.transitions[key].has}
    IN  keys \cup UNION {{m.transitions[key].toStates[i] :
                              i \in 1..Len(m.transitions[key].toStates)}
                            \cup {m.transitions[key].fromStates[i] :
                                     i \in 1..Len(m.transitions[key].fromStates)} :
                         key \in keys}

RECURSIVE totalTransitions(_, _)

\* serializeStateMachine, totalTransitions: the lengths of the toStates of
\* the nodes among S, added up.
totalTransitions(m, S) ==
    IF S = {} THEN 0
    ELSE LET s == CHOOSE x \in S : TRUE
         IN  (IF HasNode(m.transitions, s) THEN Len(m.transitions[s].toStates) ELSE 0)
                + totalTransitions(m, S \ {s})

\* serializeStateMachine, stateInfo of one state.  toStates and fromStates
\* are transitions?.toStates || [] and transitions?.fromStates || []: the
\* arrays of the node when there is one.
stateInfo(m, state) ==
    LET has == HasNode(m.transitions, state)
        config == IF state \in DOMAIN m.timeoutConfigs THEN m.timeoutConfigs[state]
                  ELSE NoConfig
    IN  [state |-> state,
         toStates |-> IF has THEN OwnList(state, "toStates") ELSE NewList(<<>>),
         fromStates |-> IF has THEN OwnList(state, "fromStates") ELSE NewList(<<>>),
         callbackCount |-> IF state \in DOMAIN m.cbMap THEN Len(m.cbMap[state]) ELSE 0,
         timeout |-> IF config.set
                     THEN <<[timeoutMs |-> config.timeoutMs,
                             expireTo |-> config.expireTo,
                             hasCallback |-> config.onExpire # Undefined,
                             isActive |-> m.activeTimers[state] # 0]>>
                     ELSE <<>>]

\* TSM.serializeStateMachine: the snapshot returned.
serializeStateMachine(m) ==
    [current |-> m.current, previous |-> m.previous, initial |-> m.initial,
     states |-> [state \in allStates(m) |-> stateInfo(m, state)],
     summary |-> [totalStates |-> Cardinality(allStates(m)),
                  totalTransitions |-> totalTransitions(m, DOMAIN m.transitions),
                  statesWithTimeouts |->
                      Cardinality({s \in States : m.timeoutConfigs[s].set}),
                  activeTimers |->
                      Cardinality({s \in States : m.activeTimers[s] # 0})]]

\* TSM.serializeStateMachine as a call: the machine it leaves and the
\* snapshot it returns.
serializeStateMachineCall(m) == [m EXCEPT !.ret = <<serializeStateMachine(m)>>]

----------------------------------------------------------------------------
(* The calls the caller makes.                                             *)

\* addTransition(from, to, loop) as the caller issues it.
AddChoices == {<<0, 2, FALSE>>, <<2, 1, FALSE>>, <<2, 1, TRUE>>, <<1, 0, FALSE>>}

\* The states the caller configures a timeout for.
TimeoutStates == {0, 2}

Options(ms, to, h) == [timeoutMs |-> ms, expireTo |-> to, onExpire |-> h]

\* setStateTimeout(state, options) as the caller issues it: auto-transitions,
\* an onExpire handler, both, and the calls the method rejects.
TimeoutChoices ==
    {<<0, Options(5, Some(2), Undefined)>>,
     <<2, Options(5, Some(1), Undefined)>>,
     <<2, Options(5, None, "eNop")>>,
     <<2, Options(5, Some(1), "eNop")>>,
     <<2, Options(5, Some(0), Undefined)>>,
     <<2, Options(0, Some(1), "eNop")>>,
     <<2, Options(5, None, Undefined)>>}

\* The automatic transition the machine is waiting for once the call has
\* finished (observation): <<S, T>> after a go(S) that has entered S and left
\* the machine there, when S expires to T without an onExpire handler and the
\* caller has added the edge (S, T); it is kept while timers fire without
\* moving the machine, and dropped by every other call.
Awaited(m, op, arg) ==
    IF op = "fire" THEN (IF m.epoch > 0 THEN <<>> ELSE last.waiting)
    ELSE IF /\ op = "go"
            /\ m.epoch > 0
            /\ m.current = arg[1]
            /\ m.timeoutConfigs[m.current].set
            /\ m.timeoutConfigs[m.current].onExpire = Undefined
            /\ m.timeoutConfigs[m.current].expireTo # None
    THEN LET T == m.timeoutConfigs[m.current].expireTo[1]
         IN  IF <<m.current, T>> \in added THEN <<m.current, T>> ELSE <<>>
    ELSE <<>>

\* What a finished call leaves behind in the variables.
Finish(m, op, arg, fired, edges) ==
    /\ initial' = m.initial
    /\ current' = m.current
    /\ previous' = m.previous
    /\ cbMap' = m.cbMap
    /\ transitions' = m.transitions
    /\ timeoutConfigs' = m.timeoutConfigs
    /\ activeTimers' = m.activeTimers
    /\ scheduled' = m.scheduled
    /\ added' = added \cup edges
    /\ last' = [op |-> op, arg |-> arg, ret |-> m.ret, exc |-> m.exc,
                calls |-> m.calls, warned |-> m.warned, moved |-> m.epoch > 0,
                fired |-> fired, waiting |-> Awaited(m, op, arg),
                pending |-> {t.state : t \in scheduled}]

Init ==
    \E init \in InitialStates :
        LET m == construct(init)
        IN  /\ initial = m.initial
            /\ current = m.current
            /\ previous = m.previous
            /\ cbMap = m.cbMap
            /\ transitions = m.transitions
            /\ timeoutConfigs = m.timeoutConfigs
            /\ activeTimers = m.activeTimers
            /\ scheduled = m.scheduled
            /\ added = {}
            /\ last = [op |-> "new", arg |-> <<init>>, ret |-> None, exc |-> "none",
                       calls |-> <<>>, warned |-> FALSE, moved |-> FALSE,
                       fired |-> <<>>, waiting |-> <<>>, pending |-> {}]

AddTransition(from, to, loop) ==
    /\ from \in States /\ to \in States
    /\ Finish(addTransition(Machine, from, to, loop), "addTransition",
           <<from, to, loop>>, <<>>,
           {<<from, to>>} \cup (IF loop THEN {<<to, from>>} ELSE {}))

\* The edges a call addTransitions(from, ...args) asks for.
RequestedBy(from, args) ==
    LET hasOptions == Len(args) > 0 /\ args[Len(args)].isOptions
        loop == hasOptions /\ args[Len(args)].loop = "true"
        n == IF hasOptions THEN Len(args) - 1 ELSE Len(args)
        objects(i) == Cardinality({j \in 1..i : args[j].isOptions})
        value(i) == IF args[i].isOptions
                    THEN ObjectKey(Cardinality(ObjectKeys(transitions)) + objects(i),
                                   args[i].loop)
                    ELSE args[i].state
        tos == {value(i) : i \in 1..n}
    IN  {<<from, to>> : to \in tos} \cup (IF loop THEN {<<to, from>> : to \in tos} ELSE {})

\* The caller stops using addTransitions and addPath once it has asked for
\* this many edges.
MaxEdges == 2

AddTransitions(from, args) ==
    /\ Cardinality(added) < MaxEdges
    /\ Finish(addTransitions(Machine, from, args), "addTransitions",
           <<from, args>>, <<>>, RequestedBy(from, args))

AddPath(states) ==
    /\ Cardinality(added) < MaxEdges
    /\ Finish(addPath(Machine, states), "addPath", <<states>>, <<>>,
           {<<states[i], states[i + 1]>> : i \in 1..(Len(states) - 1)})

CanTransition(state) ==
    /\ state \in States
    /\ Finish(canTransitionCall(Machine, state), "canTransition", <<state>>, <<>>, {})

GetValidTransitions ==
    /\ current \in States
    /\ Finish(getValidTransitionsCall(Machine), "getValidTransitions", <<>>, <<>>, {})

SerializeStateMachine ==
    /\ current \in States
    /\ Finish(serializeStateMachineCall(Machine), "serializeStateMachine", <<>>, <<>>, {})

On(to, h) ==
    /\ Includes(cbMap[to], h) \/ Len(cbMap[to]) < MaxHandlers
    /\ Finish(on(Machine, to, h), "on", <<to, h>>, <<>>, {})

SetStateTimeout(state, options) ==
    /\ state \in States
    /\ Finish(setStateTimeout(Machine, state, options), "setStateTimeout",
           <<state, options>>, <<>>, {})

ClearStateTimeout(state) ==
    /\ state \in States
    /\ Finish(clearStateTimeout(Machine, state), "clearStateTimeout", <<state>>, <<>>, {})

Go(state, throwOnInvalid) ==
    /\ state \in States
    /\ Finish(go(Machine, state, throwOnInvalid), "go", <<state, throwOnInvalid>>, <<>>, {})

Reset ==
    /\ current \in States
    /\ Finish(reset(Machine), "reset", <<>>, <<>>, {})

\* A pending timer comes due.
Fire(t) ==
    /\ t \in scheduled
    /\ Finish(fire(Machine, t), "fire", <<t.state>>, <<t>>, {})

FireAny == \E t \in scheduled : Fire(t)

Next ==
    \/ \E c \in AddChoices : AddTransition(c[1], c[2], c[3])
    \/ \E to \in HandlerStates, h \in Handlers : On(to, h)
    \/ \E c \in TimeoutChoices : SetStateTimeout(c[1], c[2])
    \/ \E state \in TimeoutStates : ClearStateTimeout(state)
    \/ \E state \in States, throwOnInvalid \in BOOLEAN : Go(state, throwOnInvalid)
    \/ Reset
    \/ FireAny

Spec == Init /\ [][Next]_vars

\* The calls of a caller that builds the path 0 -> 2 <-> 1, lets the states
\* 0 and 2 expire by automatic transitions, registers the handler that throws
\* when state 2 is entered from state 1, and drives the machine with go().
LiveNext ==
    \/ AddTransition(0, 2, FALSE)
    \/ AddTransition(2, 1, TRUE)
    \/ On(2, "hThrowFrom1")
    \/ SetStateTimeout(0, Options(5, Some(2), Undefined))
    \/ SetStateTimeout(2, Options(5, Some(1), Undefined))
    \/ \E state \in States : Go(state, FALSE)
    \/ FireAny

\* The host's event loop runs every timer that is due: a pending timer does
\* not stay pending for ever.
LiveSpec == Init /\ [][LiveNext]_vars /\ WF_vars(FireAny)

\* The calls of a caller that builds the graph 0 -> 1 <-> 2 -> 0, registers
\* entry handlers for the states 1 and 2, among them one that throws and one
\* that leaves the state entered, lets the states 1 and 2 expire, by an
\* automatic transition or by an onExpire handler, and drives the machine
\* with go().
EntryEdges == {<<0, 1, FALSE>>, <<1, 2, TRUE>>, <<2, 0, FALSE>>}

EntryHandlers == {<<1, "hNop">>, <<2, "hGo1">>, <<2, "hThrow">>, <<2, "hNop">>}

EntryTimeouts ==
    {<<1, Options(5, Some(2), Undefined)>>,
     <<2, Options(5, Some(0), "eGo1")>>,
     <<2, Options(5, Some(0), "eNop")>>}

EntryNext ==
    \/ \E c \in EntryEdges : AddTransition(c[1], c[2], c[3])
    \/ \E c \in EntryHandlers : On(c[1], c[2])
    \/ \E c \in EntryTimeouts : SetStateTimeout(c[1], c[2])
    \/ \E state \in States : Go(state, FALSE)
    \/ FireAny

EntrySpec == Init /\ [][EntryNext]_vars

\* The caller of EntrySpec, who also asks canTransition() and
\* getValidTransitions(), takes snapshots, removes timeout configs and resets the machine.
QueryNext ==
    \/ EntryNext
    \/ \E state \in States : CanTransition(state)
    \/ GetValidTransitions
    \/ SerializeStateMachine
    \/ \E state \in {1, 2} : ClearStateTimeout(state)
    \/ Reset

QuerySpec == Init /\ [][QueryNext]_vars

\* The calls of a caller who registers a handler for the initial state and a
\* handler of state 2 that calls go(1), gives the initial state a target
\* without an edge, and resets the machine.
NotifyEdges == {<<0, 1, TRUE>>, <<1, 2, TRUE>>}

NotifyHandlers == {<<0, "hNop">>, <<2, "hGo1">>}

NotifyTimeouts ==
    {<<0, Options(5, Some(2), Undefined)>>, <<2, Options(5, Some(1), Undefined)>>}

NotifyNext ==
    \/ \E c \in NotifyEdges : AddTransition(c[1], c[2], c[3])
    \/ \E c \in NotifyHandlers : On(c[1], c[2])
    \/ \E c \in NotifyTimeouts : SetStateTimeout(c[1], c[2])
    \/ \E state \in {0, 2} : ClearStateTimeout(state)
    \/ \E state \in States, throwOnInvalid \in BOOLEAN : Go(state, throwOnInvalid)
    \/ Reset
    \/ FireAny

NotifySpec == Init /\ [][NotifyNext]_vars

\* The calls of a caller that builds a graph with addTransition,
\* addTransitions and addPath, and walks it with go().
TransitionsChoices ==
    {<<0, <<StateArg(1), StateArg(2)>>>>,
     <<1, <<StateArg(0), StateArg(1), OptionsArg("true")>>>>,
     <<2, <<StateArg(0), OptionsArg(Undefined)>>>>,
     <<0, <<StateArg(2), StateArg(2), OptionsArg("false")>>>>,
     <<0, <<OptionsArg("false"), StateArg(1), OptionsArg("true")>>>>,
     <<2, <<>>>>}

PathChoices == {<<>>, <<1>>, <<0, 2, 1>>, <<1, 1, 2>>, <<2, 0, 2, 0>>}

EdgeChoices == {<<0, 1, FALSE>>, <<1, 2, TRUE>>, <<2, 2, FALSE>>}

GraphNext ==
    \/ \E c \in EdgeChoices : AddTransition(c[1], c[2], c[3])
    \/ \E c \in TransitionsChoices : AddTransitions(c[1], c[2])
    \/ \E states \in PathChoices : AddPath(states)
    \/ \E state \in States : Go(state, FALSE)

GraphSpec == Init /\ [][GraphNext]_vars

----------------------------------------------------------------------------
(* The properties.  A property of a method is stated over every reachable  *)
(* machine: the method is applied to the machine of the variables.          *)

\* The timers a machine holds, pending at the host and recorded as active.
Timers(m) == <<m.scheduled, m.activeTimers>>

\* The call left the position, the timers and the configs as they were and
\* made no handler call.
NoEffect(r) ==
    /\ r.current = current
    /\ r.previous = previous
    /\ Timers(r) = Timers(Machine)
    /\ r.timeoutConfigs = timeoutConfigs
    /\ r.calls = <<>>

\* C1: from a state A, for every state B whose edge (A, B) was never added
\* (B = A included), canTransition(B) is false, and go(B) without
\* throwOnInvalid returns A and changes neither current, previous, the
\* timers nor the configs, and calls no handler.
C1_RejectUndefined ==
    \A B \in States :
        <<current, B>> \notin added =>
            /\ ~canTransition(Machine, B)
            /\ LET r == go(Machine, B, FALSE)
               IN  /\ r.ret = Some(current)
                   /\ r.exc = "none"
                   /\ NoEffect(r)

\* A go(A) from A with no self-edge was rejected while A's timer was armed
\* and handlers were registered for A.
C1_Witness ==
    /\ last.op = "go"
    /\ last.arg = <<current, FALSE>>
    /\ <<current, current>> \notin added
    /\ last.ret = Some(current)
    /\ last.calls = <<>>
    /\ cbMap[current] # <<>>
    /\ activeTimers[current] # 0

\* C2: in every reachable state (previous, current) is an edge the caller
\* added, or the machine stands at previous = current = initial.
C2_OnlyDefinedTransitions ==
    \/ <<previous, current>> \in added
    \/ previous = initial /\ current = initial

\* An expiration has moved the machine along an edge and ran handlers.
C2_Witness ==
    /\ last.op = "fire"
    /\ last.moved
    /\ last.calls # <<>>
    /\ previous # current
    /\ <<previous, current>> \in added

\* The handlers that call back into the machine.
Reentrant == {"hGo1", "hReset"}

\* No handler registered for T calls back into the machine.
NoCallback(T) == \A i \in 1..Len(cbMap[T]) : cbMap[T][i] \notin Reentrant

\* C3 as stated: if edge (current, T) exists and no handler registered for T
\* calls back into the machine, go(T) returns T and leaves current = T and
\* previous = the state left.
C3_ReturnsTarget ==
    (last.op = "go" /\ last.moved /\ NoCallback(last.arg[1])) =>
        /\ last.ret = Some(last.arg[1])
        /\ current = last.arg[1]
        /\ <<previous, current>> \in added

\* C3, amended: under the same conditions go(T) leaves current = T and
\* previous = the state left; it returns T unless a handler registered for
\* T raises, and then that exception, and no other, leaves go.
C3_SuccessfulTransition ==
    \A T \in States, throwOnInvalid \in BOOLEAN :
        (<<current, T>> \in added /\ NoCallback(T)) =>
            LET r == go(Machine, T, throwOnInvalid)
            IN  /\ r.current = T
                /\ r.previous = current
                /\ r.exc \in {"none", "HandlerError"}
                /\ r.exc = "none" => r.ret = Some(T)
                /\ r.exc = "HandlerError" =>
                      /\ r.ret = None
                      /\ r.calls # <<>>
                      /\ r.calls[Len(r.calls)].h = "hThrowFrom1"

\* A go(T) along an edge has returned T after a handler of T ran.
C3_Witness ==
    /\ last.op = "go"
    /\ last.moved
    /\ last.exc = "none"
    /\ last.ret = Some(current)
    /\ last.arg[1] = current
    /\ last.calls # <<>>
    /\ NoCallback(current)
    /\ previous # current

\* The call had an expiration effect: an onExpire or entry handler ran, the
\* machine moved, or the invalid-target warning was printed.
ExpirationEffect == last.calls # <<>> \/ last.moved \/ last.warned

\* C4: a timer armed for a visit to S that go() or reset() has ended before
\* the timer fired never has an expiration effect, not even after the
\* machine has come back to S.
C4_ExpirationRace ==
    (last.op = "fire" /\ last.fired[1].left) => ~ExpirationEffect

\* The expiration of S has moved the machine from S to T.
ExpiredTo(S, T) ==
    /\ last.op = "fire"
    /\ last.moved
    /\ last.fired[1].state = S
    /\ last.fired[1].config.expireTo = Some(T)

\* The caller has made another call since, one that does not enter S anew.
CallerActed(S, T) == last.op # "fire" /\ last.waiting # <<S, T>>

\* C5: once the machine has entered S by go(S), where S expires to T by an
\* automatic transition along an existing edge, and as long as the caller
\* makes no further call, the machine reaches current = T with previous = S.
C5_AutoTransitionLiveness ==
    \A S \in TimeoutStates : \A T \in States \ {S} :
        (last.waiting = <<S, T>>) ~> (ExpiredTo(S, T) \/ CallerActed(S, T))

\* The pending timers of state S.
PendingFor(S) == {t \in scheduled : t.state = S}

\* C6: at every moment a state has at most one pending timer, and it is the
\* one recorded as active for the state, so the next arming of the state
\* cancels it before it schedules the new one.
C6_TimerExclusivity ==
    \A S \in States :
        /\ Cardinality(PendingFor(S)) <= 1
        /\ \A t \in PendingFor(S) : activeTimers[S] = t.id

\* setStateTimeout has re-armed the current state, whose timer was pending,
\* while another state's timer was pending too.
C6_Witness ==
    /\ last.op = "setStateTimeout"
    /\ last.exc = "none"
    /\ last.arg[1] = current
    /\ current \in last.pending
    /\ Cardinality(PendingFor(current)) = 1
    /\ Cardinality(scheduled) = 2

\* C7: reset(), from any reachable state, leaves current = previous =
\* initial; the only timer then pending or recorded is one newly armed for
\* initial, if initial has a config, and none otherwise: every timer that
\* was pending before is cancelled.
C7_ResetPostcondition ==
    LET r == reset(Machine)
        fresh == [id |-> r.activeTimers[initial], state |-> initial,
                  config |-> timeoutConfigs[initial], left |-> FALSE]
    IN  /\ r.current = initial
        /\ r.previous = initial
        /\ r.exc = "none"
        /\ \A S \in States \ {initial} : r.activeTimers[S] = 0
        /\ IF timeoutConfigs[initial].set
           THEN r.activeTimers[initial] # 0 /\ r.scheduled = {fresh}
           ELSE r.activeTimers[initial] = 0 /\ r.scheduled = {}

\* reset() was called away from initial, with no edge back to initial and a
\* timer of another state pending, and has armed the timer of initial.
C7_Witness ==
    /\ last.op = "reset"
    /\ last.pending \ {initial} # {}
    /\ \A S \in States : <<S, initial>> \notin added
    /\ activeTimers[initial] # 0
    /\ Cardinality(scheduled) = 1

\* C8: go(X, {throwOnInvalid: true}) with no edge (current, X) raises the
\* invalid-transition error and changes nothing and calls no handler; and
\* the error is raised in no other case: not by go() without the option,
\* not by a go() along an edge, not by a timer that fires.
C8_ThrowingPolicy ==
    /\ \A X \in States :
          LET r == go(Machine, X, TRUE)
          IN  IF <<current, X>> \notin added
              THEN r.exc = "InvalidTransition" /\ r.ret = None /\ NoEffect(r)
              ELSE r.exc # "InvalidTransition"
    /\ \A X \in States : go(Machine, X, FALSE).exc # "InvalidTransition"
    /\ \A t \in scheduled : fire(Machine, t).exc # "InvalidTransition"

\* A go() with throwOnInvalid was refused while a timer was pending and
\* handlers were registered for the target.
C8_Witness ==
    /\ last.op = "go"
    /\ last.arg[2]
    /\ last.exc = "InvalidTransition"
    /\ <<current, last.arg[1]>> \notin added
    /\ cbMap[last.arg[1]] # <<>>
    /\ current \in last.pending
    /\ activeTimers[current] # 0

\* Every option record over the durations -1 and 5.
AllOptions ==
    {Options(ms, to, h) : ms \in {-1, 5},
                          to \in {None} \cup {Some(T) : T \in States},
                          h \in {Undefined} \cup ExpireHandlers}

\* C9: setStateTimeout(S, opts) raises when opts.timeoutMs <= 0 or when
\* neither expireTo nor onExpire is supplied, and then the configs, the
\* timers, current and previous are as before the call, also for S = current.
C9_InvalidTimeoutRejected ==
    \A S \in States, opts \in AllOptions :
        (opts.timeoutMs <= 0 \/ (opts.expireTo = None /\ opts.onExpire = Undefined)) =>
            LET r == setStateTimeout(Machine, S, opts)
            IN  r.exc = "InvalidTimeout" /\ NoEffect(r)

\* setStateTimeout was refused for the current state, which keeps its
\* config and its pending timer.
C9_Witness ==
    /\ last.op = "setStateTimeout"
    /\ last.exc = "InvalidTimeout"
    /\ last.arg[1] = current
    /\ last.arg[2].timeoutMs <= 0
    /\ timeoutConfigs[current].set
    /\ current \in last.pending
    /\ activeTimers[current] # 0

\* C10: setStateTimeout(S, {timeoutMs > 0, expireTo: T}) succeeds and stores
\* the config for every state T of the caller's domain, the state 0 of a
\* numeric enum included; and every stored config has expireTo or onExpire.
C10_OnlyTwoReasons ==
    /\ (/\ last.op = "setStateTimeout"
        /\ last.arg[2].timeoutMs > 0
        /\ last.arg[2].expireTo # None) =>
          /\ last.exc = "none"
          /\ timeoutConfigs[last.arg[1]] =
                [set |-> TRUE, timeoutMs |-> last.arg[2].timeoutMs,
                 expireTo |-> last.arg[2].expireTo,
                 onExpire |-> last.arg[2].onExpire]
    /\ \A S \in States :
          timeoutConfigs[S].set =>
              (timeoutConfigs[S].expireTo # None \/ timeoutConfigs[S].onExpire # Undefined)

\* The calls of onExpire handlers among the handler calls of one call.
ExpireCalls(calls) == {i \in 1..Len(calls) : calls[i].h \in {"eNop", "eGo1"}}

\* C11: when a timer of state S fires while current = S and its config has an
\* onExpire handler, the handler is called first, with S, and exactly once,
\* and the engine makes no automatic transition, with or without an
\* expireTo: with a handler that returns at once the machine is where it
\* was, and with a handler that calls go(1) the only move made is the
\* handler's, from S to 1.
C11_OnExpirePrecedence ==
    \A t \in scheduled :
        (t.state = current /\ t.config.onExpire # Undefined) =>
            LET r == fire(Machine, t)
            IN  /\ r.calls # <<>>
                /\ r.calls[1] = [h |-> t.config.onExpire, from |-> current, to |-> current]
                /\ ExpireCalls(r.calls) = {1}
                /\ r.warned = FALSE
                /\ r.epoch <= 1
                /\ r.epoch = 0 => r.current = current /\ r.previous = previous
                /\ r.epoch = 1 =>
                      /\ t.config.onExpire = "eGo1"
                      /\ r.current = 1
                      /\ r.previous = current
                /\ t.config.onExpire = "eNop" => r.epoch = 0

\* The timer of state 2, which expires to 0 along an existing edge and has
\* the onExpire handler that calls go(1), has fired in state 2: the machine
\* is in state 1.
C11_Witness ==
    /\ last.op = "fire"
    /\ last.fired[1].config = [set |-> TRUE, timeoutMs |-> 5,
                               expireTo |-> Some(0), onExpire |-> "eGo1"]
    /\ <<2, 0>> \in added
    /\ last.calls # <<>>
    /\ last.calls[1].h = "eGo1"
    /\ last.moved
    /\ current = 1
    /\ previous = 2

\* C12: when a timer of state S fires while current = S and its config has
\* both an onExpire handler, one that does not move the machine, and an
\* expireTo T with the edge (S, T) added, the handler is called and then the
\* machine is moved to T.
C12_CallbackThenTransition ==
    (/\ last.op = "fire"
     /\ last.calls # <<>>
     /\ last.calls[1].h = "eNop"
     /\ last.fired[1].config.expireTo # None
     /\ <<last.fired[1].state, last.fired[1].config.expireTo[1]>> \in added) =>
        /\ current = last.fired[1].config.expireTo[1]
        /\ previous = last.fired[1].state

\* C13: after a go() or an expiration that has entered a state T with a
\* timeout config, and in which no handler moved the machine, a timer of T
\* is recorded and pending when the call has finished, also when an entry
\* handler of T raised.
C13_EntryStartsTimer ==
    (/\ last.op \in {"go", "fire"}
     /\ last.moved
     /\ \A i \in 1..Len(last.calls) : last.calls[i].h \notin Reentrant \cup {"eGo1"}
     /\ timeoutConfigs[current].set) =>
        /\ activeTimers[current] # 0
        /\ \E t \in scheduled : t.id = activeTimers[current] /\ t.state = current

\* The entry handlers called with toState = T in one call, in the order of
\* the calls: the handlers the entries into T have dispatched.
RECURSIVE DispatchedFor(_, _)
DispatchedFor(calls, T) ==
    IF calls = <<>> THEN <<>>
    ELSE LET c == Head(calls)
             rest == DispatchedFor(Tail(calls), T)
         IN  IF c.to = T /\ c.h \notin {"eNop", "eGo1"} THEN <<c.h>> \o rest ELSE rest

\* r is the result of a call that has entered T: an entry with no raise has
\* called the handlers in list, once each and in that order.
AllCalledInOrder(r, T, list) == DispatchedFor(r.calls, T) = list

\* The handlers of T called are those of list up to the one that raised.
CalledUpToRaise(r, T, list) ==
    LET own == DispatchedFor(r.calls, T)
    IN  /\ own # <<>>
        /\ Len(own) <= Len(list)
        /\ own = SubSeq(list, 1, Len(own))
        /\ own[Len(own)] = "hThrow"

\* The handlers of a state X other than the one entered are called only by
\* an entry into X that a handler has made with go(X), and then as a list.
OthersOnlyByEntry(r, T) ==
    \A X \in States \ {T} :
        LET other == DispatchedFor(r.calls, X)
        IN  \/ other = <<>>
            \/ /\ X = 1
               /\ \E i \in 1..Len(r.calls) : r.calls[i].h \in {"hGo1", "eGo1"}
               /\ other = cbMap[X]

\* C14 as stated: a go(T) that commits calls every handler registered for
\* T, once each, in the order of registration.
C14_EveryHandlerOnce ==
    \A T \in States :
        canTransition(Machine, T) =>
            AllCalledInOrder(go(Machine, T, FALSE), T, cbMap[T])

\* C14, amended: every committed entry into T, by go(T) or by an
\* expiration, calls the handlers registered for T once each, in the order
\* of registration, up to and including the first that raises; the
\* handlers after that one are not called; handlers registered for another
\* state are called only if a handler enters that state.
C14_HandlerDispatch ==
    /\ \A T \in States :
          LET r == go(Machine, T, FALSE)
          IN  IF ~canTransition(Machine, T) THEN r.calls = <<>>
              ELSE /\ IF r.exc = "none" THEN AllCalledInOrder(r, T, cbMap[T])
                      ELSE CalledUpToRaise(r, T, cbMap[T])
                   /\ OthersOnlyByEntry(r, T)
    /\ \A t \in scheduled :
          (/\ t.state = current
           /\ t.config.onExpire = Undefined
           /\ t.config.expireTo # None
           /\ canTransition(Machine, t.config.expireTo[1])) =>
              LET T == t.config.expireTo[1]
                  r == fire(Machine, t)
              IN  /\ IF r.exc = "none" THEN AllCalledInOrder(r, T, cbMap[T])
                     ELSE CalledUpToRaise(r, T, cbMap[T])
                  /\ OthersOnlyByEntry(r, T)

\* A go(2) has called the two handlers of state 2 in their order; the
\* second has entered state 1 with go(1), and that entry has called the
\* handler of state 1; go(2) has returned.
C14_Witness ==
    /\ last.op = "go"
    /\ last.arg[1] = 2
    /\ last.moved
    /\ last.exc = "none"
    /\ Len(cbMap[2]) = 2
    /\ cbMap[1] # <<>>
    /\ Len(last.calls) = 3
    /\ last.calls[1].h = cbMap[2][1]
    /\ last.calls[2].h = cbMap[2][2]
    /\ last.calls[3].h = cbMap[1][1]
    /\ current = 1

\* C15: a go(T) that commits from state S calls every handler registered
\* for T with (fromState, toState) = (S, T), the handlers that come after
\* one that has called go() or reset() included.
C15_HandlerArguments ==
    \A T \in States :
        canTransition(Machine, T) =>
            LET r == go(Machine, T, FALSE)
            IN  \A i \in 1..Len(r.calls) :
                    (r.calls[i].to = T /\ r.calls[i].h \notin {"eNop", "eGo1"}) =>
                        r.calls[i].from = current

\* The number of times h occurs in a list of handlers.
Count(list, h) == Cardinality({i \in 1..Len(list) : list[i] = h})

\* The handlers the caller of EntrySpec registers.
EntryHandlerNames == {c[2] : c \in EntryHandlers}

\* C16 as stated: after on(T, h) has been called more than once, every
\* committed entry into T calls h exactly once.
C16_OncePerEntry ==
    \A T \in States, h \in EntryHandlerNames :
        canTransition(Machine, T) =>
            LET r == go(on(on(Machine, T, h), T, h), T, FALSE)
            IN  Count(DispatchedFor(r.calls, T), h) = 1

\* C16, amended: on(T, h) with h already registered for T changes nothing,
\* so h keeps its place among the handlers of T; a first on(T, h) puts h
\* after the handlers already registered; and however often on(T, h) was
\* called, a committed entry into T calls h once, or not at all when a
\* handler registered before h raises.
C16_IdempotentRegistration ==
    \A T \in States, h \in EntryHandlerNames :
        LET m1 == on(Machine, T, h)
            m2 == on(m1, T, h)
        IN  /\ m2.cbMap = m1.cbMap
            /\ Includes(cbMap[T], h) => m1.cbMap = cbMap
            /\ SubSeq(m1.cbMap[T], 1, Len(cbMap[T])) = cbMap[T]
            /\ Count(m1.cbMap[T], h) = 1
            /\ \A X \in States \ {T} : m1.cbMap[X] = cbMap[X]
            /\ canTransition(Machine, T) =>
                  LET r == go(m2, T, FALSE)
                      own == DispatchedFor(r.calls, T)
                  IN  /\ Count(own, h) <= 1
                      /\ Count(own, h) = 0 =>
                            /\ r.exc = "HandlerError"
                            /\ own # <<>>
                            /\ own[Len(own)] # h

\* on(T, h) was called for the handler that is first of the two handlers of
\* T: it was registered before, and the list is as it was.
C16_Witness ==
    /\ last.op = "on"
    /\ Len(cbMap[last.arg[1]]) = 2
    /\ cbMap[last.arg[1]][1] = last.arg[2]
    /\ cbMap[last.arg[1]][2] # last.arg[2]

\* C17: addTransition(A, B) without loop makes canTransition(B) true from A
\* and adds no edge from B to A: from B, canTransition(A) is true only if the
\* edge (B, A) was asked for by another call, or A = B.  addTransition(A, B)
\* with loop makes canTransition true from A to B and from B to A.
C17_EdgeDirection ==
    \A A \in States, B \in States :
        LET oneWay == addTransition(Machine, A, B, FALSE)
            both == addTransition(Machine, A, B, TRUE)
        IN  /\ current = A => canTransition(oneWay, B) /\ canTransition(both, B)
            /\ current = B =>
                  /\ canTransition(oneWay, A) <=> (<<B, A>> \in added \/ A = B)
                  /\ canTransition(both, A)

\* addTransition(A, B, true) was called with the machine in B, A # B, and
\* canTransition(A) is true from B.
C17_Witness ==
    /\ last.op = "addTransition"
    /\ last.arg[3] = TRUE
    /\ last.arg[1] # last.arg[2]
    /\ current = last.arg[2]
    /\ canTransition(Machine, last.arg[1])
    /\ transitions[last.arg[1]].fromStates # <<>>

\* The longest path the equivalence is checked for.
MaxPath == 4

\* Every sequence of at most n states, repetitions allowed.
Paths(n) == UNION {[1..k -> States] : k \in 0..n}

\* addTransition(s[i], s[i+1]) without loop for the pairs from the i-th on.
RECURSIVE Chain(_, _, _)
Chain(m, states, i) ==
    IF i >= Len(states) THEN m
    ELSE Chain(addTransition(m, states[i], states[i + 1], FALSE), states, i + 1)

\* C18: on every graph, addPath(s1, ..., sn) leaves the same machine, with
\* the same toStates and fromStates lists and the same nodes, as the calls
\* addTransition(s1, s2), ..., addTransition(s(n-1), sn); for n <= 1 the
\* machine is as it was.
C18_AddPathEquivalence ==
    \A states \in Paths(MaxPath) :
        /\ addPath(Machine, states) = Chain(Machine, states, 1)
        /\ Len(states) <= 1 => addPath(Machine, states) = Machine

\* addPath(2, 0, 2, 0) was called: the nodes 2 and 0 have each other in
\* both lists, once.
C18_Witness ==
    /\ last.op = "addPath"
    /\ last.arg[1] = <<2, 0, 2, 0>>
    /\ Count(transitions[2].toStates, 0) = 1
    /\ Count(transitions[0].toStates, 2) = 1
    /\ Count(transitions[2].fromStates, 0) = 1
    /\ Count(transitions[0].fromStates, 2) = 1

\* The edge (A, B) is in the graph.
HasEdge(A, B) == Includes(transitions[A].toStates, B)

\* C19: adding an edge (A, B) that is in the graph, with addTransition,
\* addTransitions or addPath, leaves every toStates and fromStates list as
\* it was, for A = B too, and with loop when (B, A) is in the graph as well;
\* and each of these calls made twice leaves what it leaves made once.
C19_EdgeIdempotent ==
    \A A \in States, B \in States :
        /\ HasEdge(A, B) =>
              /\ addTransition(Machine, A, B, FALSE).transitions = transitions
              /\ addTransitions(Machine, A, <<StateArg(B)>>).transitions = transitions
              /\ addTransitions(Machine, A,
                     <<StateArg(B), StateArg(B), OptionsArg("false")>>).transitions = transitions
              /\ addPath(Machine, <<A, B>>).transitions = transitions
              /\ HasEdge(B, A) =>
                    /\ addTransition(Machine, A, B, TRUE).transitions = transitions
                    /\ addTransitions(Machine, A,
                           <<StateArg(B), OptionsArg("true")>>).transitions = transitions
                    /\ addPath(Machine, <<A, B, A>>).transitions = transitions
        /\ \A loop \in BOOLEAN :
              LET once == addTransition(Machine, A, B, loop)
              IN  addTransition(once, A, B, loop) = once
        /\ \A loop \in {"true", "false", Undefined} :
              LET args == <<StateArg(B), StateArg(A), OptionsArg(loop)>>
                  once == addTransitions(Machine, A, args)
              IN  addTransitions(once, A, args) = once
        /\ LET once == addPath(Machine, <<A, B, B, A>>)
           IN  addPath(once, <<A, B, B, A>>) = once

\* addTransitions(0, 2, 2, {loop: false}) was called: the second 2 is an
\* edge already present, and the lists have the state once.
C19_Witness ==
    /\ last.op = "addTransitions"
    /\ last.arg = <<0, <<StateArg(2), StateArg(2), OptionsArg("false")>>>>
    /\ Count(transitions[0].toStates, 2) = 1
    /\ Count(transitions[2].fromStates, 0) = 1

\* What C20 says of a go(T) from S in which a handler of T has raised: the
\* machine is in T with previous = S, S has no timer recorded or pending,
\* and the handlers of T after the one that raised were not called.
NotRolledBack(r, S, T) ==
    /\ r.current = T
    /\ r.previous = S
    /\ S # T => (r.activeTimers[S] = 0 /\ \A t \in r.scheduled : t.state # S)
    /\ CalledUpToRaise(r, T, cbMap[T])

\* C20 as stated: if a handler registered for T raises during go(T) from S,
\* the exception leaves go() and the machine is as NotRolledBack says.
C20_ThrowKeepsTransition ==
    \A T \in States, throwOnInvalid \in BOOLEAN :
        LET r == go(Machine, T, throwOnInvalid)
        IN  r.exc = "HandlerError" => NotRolledBack(r, current, T)

\* C20, amended: the same, provided no handler called before the one that
\* raised has itself called go() or reset(); and a handler of T that raises
\* always makes go(T) raise.
C20_NoRollback ==
    \A T \in States, throwOnInvalid \in BOOLEAN :
        LET r == go(Machine, T, throwOnInvalid)
        IN  /\ (/\ r.exc = "HandlerError"
                /\ \A i \in 1..Len(r.calls) : r.calls[i].h \notin Reentrant) =>
                  /\ NotRolledBack(r, current, T)
                  /\ r.ret = None
                  /\ r.epoch = 1
            /\ (canTransition(Machine, T) /\ Includes(cbMap[T], "hThrow")) =>
                  r.exc = "HandlerError"

\* go(2) from state 1, whose timer was pending, has raised in the first of
\* the two handlers of state 2: the machine is in 2, the timer of 1 is gone
\* and the second handler was not called.
C20_Witness ==
    /\ last.op = "go"
    /\ last.exc = "HandlerError"
    /\ current = 2
    /\ previous = 1
    /\ 1 \in last.pending
    /\ activeTimers[1] = 0
    /\ \A t \in scheduled : t.state # 1
    /\ Len(cbMap[2]) = 2
    /\ Len(last.calls) = 1

\* C21: canTransition(T) returns true exactly when the edge current -> T was
\* added, and leaves the machine as it was: current, previous, the graph, the
\* handlers, the configs and the timers are unchanged and no handler is
\* called. getValidTransitions() leaves the machine as it was too, and returns
\* each T for which canTransition(T) is true once, in the order the edges were
\* added (a new edge goes to the end), and the empty list when current has no
\* node.
C21_QueriesArePure ==
    /\ \A T \in States :
          LET r == canTransitionCall(Machine, T)
          IN  /\ r.ret = << <<current, T>> \in added >>
              /\ [r EXCEPT !.ret = None] = Machine
    /\ LET r == getValidTransitionsCall(Machine)
       IN  /\ [r EXCEPT !.ret = None] = Machine
           /\ \A T \in States :
                 Count(r.ret, T) = IF canTransition(Machine, T) THEN 1 ELSE 0
           /\ ~transitions[current].has => r.ret = <<>>
           /\ \A T \in States :
                 ~canTransition(Machine, T) =>
                    getValidTransitions(addTransition(Machine, current, T, FALSE))
                       = Append(r.ret, T)

\* getValidTransitions() was called in state 2, whose timer is pending and
\* which has a handler: it returned 0 and 1, the edge to 0 having been added
\* first.
C21_Witness ==
    /\ last.op = "getValidTransitions"
    /\ last.ret = <<0, 1>>
    /\ current = 2
    /\ cbMap[2] # <<>>
    /\ \E t \in scheduled : t.state = 2

\* What the caller reads in the lists of a snapshot of m.
SnapshotLists(m) ==
    LET snap == serializeStateMachine(m)
    IN  [state \in DOMAIN snap.states |->
            <<Items(m, snap.states[state].toStates),
              Items(m, snap.states[state].fromStates)>>]

\* The answers of the machine m that a caller can tell apart: canTransition,
\* where go() leads, getValidTransitions and the lists of a snapshot.
Answers(m) ==
    <<[T \in States |-> canTransition(m, T)],
      [T \in States |-> go(m, T, FALSE).current],
      getValidTransitions(m),
      SnapshotLists(m)>>

\* C22: the lists handed out are copies: after the caller has pushed a state
\* onto the list getValidTransitions() returned, or onto the toStates or the
\* fromStates of a state of a snapshot, canTransition(), go(),
\* getValidTransitions() and a later snapshot answer as before.
C22_ViewsAreCopies ==
    \A x \in States :
        /\ Answers(push(Machine, NewList(getValidTransitionsCall(Machine).ret), x))
              = Answers(Machine)
        /\ LET snap == serializeStateMachine(Machine)
           IN  \A state \in DOMAIN snap.states :
                  /\ Answers(push(Machine, snap.states[state].toStates, x))
                        = Answers(Machine)
                  /\ Answers(push(Machine, snap.states[state].fromStates, x))
                        = Answers(Machine)

\* C23: the counters of a snapshot are exact: totalStates is the number of
\* states that are an end of an added edge, totalTransitions the number of
\* added edges, statesWithTimeouts the number of states with a config,
\* activeTimers the number of timers pending, and current, previous and
\* initial are those of the machine.
C23_SnapshotCounters ==
    LET snap == serializeStateMachine(Machine)
    IN  /\ snap.summary.totalStates =
              Cardinality({e[1] : e \in added} \cup {e[2] : e \in added})
        /\ snap.summary.totalTransitions = Cardinality(added)
        /\ snap.summary.statesWithTimeouts =
              Cardinality({s \in States : timeoutConfigs[s].set})
        /\ snap.summary.activeTimers = Cardinality(scheduled)
        /\ snap.current = current
        /\ snap.previous = previous
        /\ snap.initial = initial

\* The options setStateTimeout accepts.
AcceptedOptions ==
    {Options(5, Some(2), Undefined), Options(7, None, "eNop"),
     Options(5, Some(1), "eGo1")}

\* C24: clearStateTimeout(S) removes the config of S and cancels the pending
\* timer of S; current, previous, the graph, the handlers and the configs
\* and timers of the other states are as they were; after it an entry
\* into S, by go(S) or by reset(), arms no timer for S, and after a
\* setStateTimeout(S) that is accepted an entry that ends in S arms one.
C24_ClearStateTimeout ==
    \A S \in States :
        LET r == clearStateTimeout(Machine, S)
        IN  /\ r.timeoutConfigs = [timeoutConfigs EXCEPT ![S] = NoConfig]
            /\ r.activeTimers = [activeTimers EXCEPT ![S] = 0]
            /\ r.scheduled = {t \in scheduled : t.state # S}
            /\ r.current = current /\ r.previous = previous
            /\ r.transitions = transitions /\ r.cbMap = cbMap
            /\ r.calls = <<>> /\ r.exc = "none"
            /\ LET g == go(r, S, FALSE)
                   z == reset(r)
               IN  /\ g.activeTimers[S] = 0 /\ \A t \in g.scheduled : t.state # S
                   /\ z.activeTimers[S] = 0 /\ \A t \in z.scheduled : t.state # S
            /\ \A options \in AcceptedOptions :
                  LET g == go(setStateTimeout(r, S, options), S, FALSE)
                  IN  (g.exc = "none" /\ g.current = S) =>
                         \E t \in g.scheduled :
                            /\ t.state = S
                            /\ t.id = g.activeTimers[S]
                            /\ t.config.timeoutMs = options.timeoutMs

\* clearStateTimeout(2) was called in state 2 while the timer of 2 was
\* pending: the config and the timer are gone.
C24_Witness ==
    /\ last.op = "clearStateTimeout"
    /\ last.arg = <<2>>
    /\ 2 \in last.pending
    /\ current = 2
    /\ ~timeoutConfigs[2].set
    /\ \A t \in scheduled : t.state # 2

\* Valid options: a positive delay and a target, a handler or both.
ValidOptions == AcceptedOptions \cup {Options(5, Some(0), Undefined)}

\* The config setStateTimeout stores for these options.
Stored(options) ==
    [set |-> TRUE, timeoutMs |-> options.timeoutMs,
     expireTo |-> options.expireTo, onExpire |-> options.onExpire]

\* What C25 says of r, the machine after setStateTimeout(S, options): the
\* config of S is the new one; if S is current, the one pending timer of S
\* has the new config, is armed for the present visit and is recorded for S,
\* and the timers of the other states are as they were; if S is not current, all timers are as
\* they were.
Overwritten(r, S, options) ==
    /\ r.exc = "none"
    /\ r.timeoutConfigs = [timeoutConfigs EXCEPT ![S] = Stored(options)]
    /\ S = current =>
          /\ \E t \in r.scheduled :
                /\ t.state = S
                /\ t.config = Stored(options)
                /\ t.id = r.activeTimers[S]
                /\ ~t.left
                /\ \A u \in r.scheduled : u.state = S => u = t
          /\ {t \in r.scheduled : t.state # S} = {t \in scheduled : t.state # S}
          /\ \A s \in States \ {S} : r.activeTimers[s] = activeTimers[s]
    /\ S # current => Timers(r) = Timers(Machine)
    /\ r.current = current /\ r.previous = previous /\ r.calls = <<>>

\* C25: setStateTimeout(S, options) with valid options overwrites the config
\* of S; if S is current the pending timer of S is cancelled and a new one is
\* armed with the new config, and if S is not current no timer is armed or
\* cancelled.
C25_SetStateTimeout ==
    \A S \in States, options \in ValidOptions :
        Overwritten(setStateTimeout(Machine, S, options), S, options)

\* The calls of r.calls made by the dispatch of go(T): the handlers of T.
\* (In the runs of EntrySpec a handler of state 2 may call go(1), and the
\* handlers of state 1 call nothing.)
OuterCalls(r, T) == {i \in 1..Len(r.calls) : r.calls[i].to = T}

\* What C26 says the i-th handler call of go(T) from S finds: the machine is
\* in T with previous = S, S has no timer recorded or pending, and go(T) has
\* armed nothing for T yet: the timers of T are those from before the call
\* (none, if T = S).
SeesCommitted(r, i, S, T) ==
    /\ r.seen[i].current = T
    /\ r.seen[i].previous = S
    /\ r.seen[i].activeTimers[S] = 0
    /\ \A t \in r.seen[i].scheduled : t.state # S
    /\ T # S => r.seen[i].activeTimers[T] = activeTimers[T]
    /\ T # S => {t.id : t \in {u \in r.seen[i].scheduled : u.state = T}}
                   = {t.id : t \in {u \in scheduled : u.state = T}}

\* C26 as stated: in go(T) from S, every handler of T finds the move made
\* and the timer of S cancelled, and the timer of T is armed only after they
\* have all returned.
C26_CommitOrder ==
    \A T \in States :
        LET r == go(Machine, T, FALSE)
        IN  \A i \in OuterCalls(r, T) : SeesCommitted(r, i, current, T)

\* C26, amended: the same for every handler of T before which no handler of
\* the same dispatch has itself called go() or reset(); and when no handler
\* raises, the timer of T that go(T) arms is there when go(T) returns,
\* unless a handler has moved the machine.
C26_CommitOrderUntilReentry ==
    \A T \in States :
        LET r == go(Machine, T, FALSE)
        IN  /\ \A i \in OuterCalls(r, T) :
                  (\A j \in OuterCalls(r, T) : j < i => r.calls[j].h \notin Reentrant)
                     => SeesCommitted(r, i, current, T)
            /\ (/\ canTransition(Machine, T)
                /\ r.exc = "none"
                /\ r.epoch = 1
                /\ timeoutConfigs[T].set) =>
                  \E t \in r.scheduled : t.state = T /\ t.id = r.activeTimers[T]

\* go(2) from state 1, whose timer was pending, with a config for state 2,
\* has called the two handlers of state 2, the second of which calls go(1):
\* before either of them no handler had called go() or reset().
C26_Witness ==
    /\ last.op = "go"
    /\ last.arg = <<2, FALSE>>
    /\ last.exc = "none"
    /\ Len(last.calls) >= 2
    /\ last.calls[1] = [h |-> "hNop", from |-> 1, to |-> 2]
    /\ last.calls[2] = [h |-> "hGo1", from |-> 1, to |-> 2]
    /\ 1 \in last.pending
    /\ timeoutConfigs[2].set
    /\ current = 1

\* The timer of state s is armed in what a handler sees, or in a machine:
\* it is pending and it is the one recorded for s.
ArmedIn(scheduledNow, activeNow, s) ==
    \E t \in scheduledNow : t.state = s /\ t.id = activeNow[s]

\* C27: when a handler called by go(T) calls go(1) over an edge (T, 1), the
\* handlers of state 1 are called at once, with from = T; the next handler of
\* T finds the inner call complete: the machine in 1 with previous = T, the
\* timer of 1 armed if 1 has a config, and no timer recorded for T; and when
\* the outer go(T) returns, it returns 1, current = 1 and previous = T, and
\* the timer of T is armed if T has a config, as is the timer of 1 if 1 has.
C27_ReentrantGo ==
    \A T \in States \ {1} :
        LET r == go(Machine, T, FALSE)
            n == Len(cbMap[1])
        IN  \A i \in OuterCalls(r, T) :
               (/\ r.calls[i].h = "hGo1"
                /\ <<T, 1>> \in added
                /\ \A j \in OuterCalls(r, T) : j < i => r.calls[j].h \notin Reentrant) =>
                  /\ Len(r.calls) >= i + n
                  /\ \A k \in 1..n :
                        r.calls[i + k] = [h |-> cbMap[1][k], from |-> T, to |-> 1]
                  /\ Len(r.calls) > i + n =>
                        /\ r.calls[i + n + 1].to = T
                        /\ r.seen[i + n + 1].current = 1
                        /\ r.seen[i + n + 1].previous = T
                        /\ r.seen[i + n + 1].activeTimers[T] = 0
                        /\ timeoutConfigs[1].set =>
                              ArmedIn(r.seen[i + n + 1].scheduled,
                                      r.seen[i + n + 1].activeTimers, 1)
                  /\ r.exc = "none" =>
                        /\ r.ret = Some(1)
                        /\ r.current = 1
                        /\ r.previous = T
                        /\ timeoutConfigs[T].set => ArmedIn(r.scheduled, r.activeTimers, T)
                        /\ timeoutConfigs[1].set => ArmedIn(r.scheduled, r.activeTimers, 1)

\* go(2) from state 1 has returned 1: the first handler of state 2 called
\* go(1), the handler of state 1 was called with from = 2, then the second
\* handler of state 2; the machine is in 1 and the timers of 1 and of 2 are
\* both pending.
C27_Witness ==
    /\ last.op = "go"
    /\ last.arg = <<2, FALSE>>
    /\ last.exc = "none"
    /\ last.ret = Some(1)
    /\ Len(last.calls) = 3
    /\ last.calls[1] = [h |-> "hGo1", from |-> 1, to |-> 2]
    /\ last.calls[2] = [h |-> "hNop", from |-> 2, to |-> 1]
    /\ last.calls[3].h = "hNop" /\ last.calls[3].to = 2
    /\ current = 1
    /\ previous = 2
    /\ ArmedIn(scheduled, activeTimers, 1)
    /\ ArmedIn(scheduled, activeTimers, 2)

\* C28: when a timer armed for S fires while the machine is in another
\* state, nothing happens: current and previous are as they were, no onExpire
\* handler and no entry handler is called, no transition is made, nothing is
\* warned of or raised, and the graph, the handlers, the configs and the
\* other pending timers are as they were.
C28_StaleTimerGuard ==
    \A t \in scheduled :
        t.state # current =>
            LET r == fire(Machine, t)
            IN  /\ r.current = current
                /\ r.previous = previous
                /\ r.calls = <<>>
                /\ r.epoch = 0
                /\ ~r.warned
                /\ r.exc = "none"
                /\ r.transitions = transitions
                /\ r.cbMap = cbMap
                /\ r.timeoutConfigs = timeoutConfigs
                /\ r.scheduled = scheduled \ {t}

\* The timer of state 2, whose config has an onExpire handler and the target
\* 0, has fired while the machine was in 1, where a handler of 2 had moved
\* it: no handler was called and the machine is still in 1.
C28_Witness ==
    /\ last.op = "fire"
    /\ last.fired[1].state = 2
    /\ last.fired[1].config.onExpire # Undefined
    /\ last.fired[1].config.expireTo = Some(0)
    /\ <<1, 0>> \notin added
    /\ ~last.moved
    /\ last.calls = <<>>
    /\ current = 1
    /\ previous = 2

\* The states with a timer that is scheduled and has neither fired nor been
\* cancelled.
PendingStates == {t.state : t \in scheduled}

\* C29: between calls the states recorded as having an active timer are
\* the states with a pending timer, in the map and in what a snapshot reports
\* (summary.activeTimers, timeout.isActive; the display marks ACTIVE by the
\* same test); and a timer that fires removes its entry: no handler called
\* by the firing finds it, and it is not there afterwards unless the state
\* was entered anew.
C29_ActiveSetExact ==
    /\ {s \in States : activeTimers[s] # 0} = PendingStates
    /\ LET snap == serializeStateMachine(Machine)
       IN  /\ snap.summary.activeTimers = Cardinality(PendingStates)
           /\ \A s \in DOMAIN snap.states :
                 snap.states[s].timeout # <<>> =>
                    (snap.states[s].timeout[1].isActive <=> s \in PendingStates)
    /\ \A t \in scheduled :
          LET r == fire(Machine, t)
          IN  /\ r.seen # <<>> => r.seen[1].activeTimers[t.state] = 0
              /\ r.activeTimers[t.state] # 0 =>
                    \E u \in r.scheduled : u.id = r.activeTimers[t.state]

\* No entry handler that calls go() or reset() is registered.
NoReentrantHandler ==
    \A s \in States : \A i \in 1..Len(cbMap[s]) : cbMap[s][i] \notin Reentrant

\* C30: if no entry handler calls go() or reset(), then between calls every
\* timer, pending or recorded, is keyed to the current state, at most one
\* timer is pending, and there is one only if current has a config.
C30_TimersFollowCurrent ==
    NoReentrantHandler =>
        /\ \A t \in scheduled : t.state = current
        /\ \A s \in States : activeTimers[s] # 0 => s = current
        /\ Cardinality(scheduled) <= 1
        /\ scheduled # {} => timeoutConfigs[current].set

\* The timer of state 2 has fired and its onExpire handler has called go(1):
\* the one timer pending is that of state 1, the current state; states 1
\* and 2 have handlers, none of which calls go() or reset().
C30_Witness ==
    /\ last.op = "fire"
    /\ last.arg = <<2>>
    /\ last.moved
    /\ NoReentrantHandler
    /\ cbMap[1] # <<>>
    /\ cbMap[2] # <<>>
    /\ timeoutConfigs[2].set
    /\ current = 1
    /\ \E t \in scheduled : t.state = 1

\* The timer t is one of the current state, without onExpire handler and
\* with a target.
AutoTimer(t) ==
    /\ t.state = current
    /\ t.config.onExpire = Undefined
    /\ t.config.expireTo # None

\* C31: when a timer of the current state S fires, its config has no onExpire
\* handler, and the edge from S to its target is not in the graph, a warning
\* is given, nothing is raised, current and previous are as they were and no
\* handler is called; the edge is looked for when the timer fires: with the
\* edge added after the timer was armed there is no warning and the machine
\* is moved.
C31_InvalidExpireTarget ==
    \A t \in scheduled :
        AutoTimer(t) =>
            LET T == t.config.expireTo[1]
                r == fire(Machine, t)
                late == fire(addTransition(Machine, current, T, FALSE), t)
            IN  /\ <<current, T>> \notin added =>
                      /\ r.warned
                      /\ r.exc = "none"
                      /\ r.current = current
                      /\ r.previous = previous
                      /\ r.epoch = 0
                      /\ r.calls = <<>>
                /\ <<current, T>> \in added => ~r.warned /\ r.epoch > 0
                /\ ~late.warned /\ late.epoch > 0

\* The timer of state 1, whose target is 2, has fired in state 1 with no edge
\* from 1 to 2: a warning was given, state 2 has a handler and it was not
\* called, and the machine is still in 1.
C31_Witness ==
    /\ last.op = "fire"
    /\ last.arg = <<1>>
    /\ last.warned
    /\ last.exc = "none"
    /\ ~last.moved
    /\ last.calls = <<>>
    /\ cbMap[2] # <<>>
    /\ <<1, 2>> \notin added
    /\ current = 1
    /\ previous = 0

\* The calls a and b have left the same machine, made the same handler calls
\* with the handlers finding the same, and ended the same way.
SameOutcome(a, b) ==
    /\ a.current = b.current /\ a.previous = b.previous
    /\ a.exc = b.exc /\ a.warned = b.warned /\ a.epoch = b.epoch
    /\ a.scheduled = b.scheduled
    /\ a.calls = b.calls
    /\ Len(a.seen) = Len(b.seen)
    /\ \A i \in 1..Len(a.seen) :
          /\ a.seen[i].current = b.seen[i].current
          /\ a.seen[i].previous = b.seen[i].previous
          /\ a.seen[i].scheduled = b.seen[i].scheduled
          /\ \A s \in States :
                a.seen[i].activeTimers[s] = b.seen[i].activeTimers[s]
    /\ \A s \in States :
          /\ a.activeTimers[s] = b.activeTimers[s]
          /\ a.timeoutConfigs[s] = b.timeoutConfigs[s]
          /\ a.cbMap[s] = b.cbMap[s]
          /\ a.transitions[s] = b.transitions[s]

\* What C32 lists of r, the machine after an entry into T from S, where no
\* handler called has itself called go() or reset(): previous = S, current =
\* T, the handlers of T called with (S, T) in the order of registration, once
\* each, or up to the one that raised, no timer of S recorded or pending, and
\* the timer of T armed if T has a config.
EnteredAsByGo(r, S, T) ==
    /\ r.previous = S
    /\ r.current = T
    /\ \A i \in 1..Len(r.calls) : r.calls[i].to = T /\ r.calls[i].from = S
    /\ \/ r.exc = "none" /\ AllCalledInOrder(r, T, cbMap[T])
       \/ r.exc # "none" /\ CalledUpToRaise(r, T, cbMap[T])
    /\ T # S => (r.activeTimers[S] = 0 /\ \A u \in r.scheduled : u.state # S)
    /\ timeoutConfigs[T].set => ArmedIn(r.scheduled, r.activeTimers, T)

\* The timer t of the current state expires to a target with an added edge.
ValidAutoTimer(t) == AutoTimer(t) /\ canTransition(Machine, t.config.expireTo[1])

\* C32: when a timer of the current state S fires with a valid target T and
\* no onExpire handler, the outcome is that of go(T) called at that moment;
\* and where no handler of T calls go() or reset(), previous = S, current =
\* T, the handlers of T are called in the order of registration with (S, T)
\* (up to one that raises), no timer is left for S, and the timer of T is
\* armed if T has a config.
C32_ExpirationIsGo ==
    \A t \in scheduled :
        ValidAutoTimer(t) =>
            LET T == t.config.expireTo[1]
                r == fire(Machine, t)
            IN  /\ SameOutcome(r, go(Machine, T, FALSE))
                /\ r.epoch > 0
                /\ (\A i \in 1..Len(r.calls) : r.calls[i].h \notin Reentrant) =>
                      EnteredAsByGo(r, current, T)

\* C33: reset() leaves the graph, the handlers and the timeout configs as
\* they were; after it canTransition(T) is true exactly for the edges added
\* from initial, and an entry into a state T with a config, which leaves the
\* machine in T, arms the timer of T with that config.
C33_ResetFrame ==
    LET r == reset(Machine)
    IN  /\ \A s \in States :
              /\ r.transitions[s] = transitions[s]
              /\ r.cbMap[s] = cbMap[s]
              /\ r.timeoutConfigs[s] = timeoutConfigs[s]
        /\ r.calls = <<>>
        /\ \A T \in States :
              /\ canTransition(r, T) <=> <<initial, T>> \in added
              /\ LET g == go(r, T, FALSE)
                 IN  (/\ canTransition(r, T)
                      /\ timeoutConfigs[T].set
                      /\ g.exc = "none"
                      /\ g.current = T) =>
                        \E t \in g.scheduled :
                            /\ t.state = T
                            /\ t.id = g.activeTimers[T]
                            /\ t.config = timeoutConfigs[T]

\* reset() was called in state 2 while the timer of 2 was pending: the
\* machine is in initial, the edges, the handlers of 1 and 2 and the configs
\* of 1 and 2 are there, and no timer is pending.
C33_Witness ==
    /\ last.op = "reset"
    /\ 2 \in last.pending
    /\ current = initial
    /\ previous = initial
    /\ <<0, 1>> \in added
    /\ cbMap[1] # <<>>
    /\ cbMap[2] # <<>>
    /\ timeoutConfigs[1].set
    /\ timeoutConfigs[2].set
    /\ scheduled = {}

\* The list old is the beginning of the list new.
IsPrefix(old, new) ==
    Len(old) <= Len(new) /\ SubSeq(new, 1, Len(old)) = old

\* The builder call that gave r has kept every list of every node and has
\* put the new states after the ones that were there.  The nodes are those
\* of every key of the map, an options object that became a key included.
ListsExtended(r) ==
    \A s \in DOMAIN transitions :
        /\ s \in DOMAIN r.transitions
        /\ IsPrefix(transitions[s].toStates, r.transitions[s].toStates)
        /\ IsPrefix(transitions[s].fromStates, r.transitions[s].fromStates)

\* C34: after any sequence of addTransition, addTransitions and addPath: b
\* is in toStates(a) exactly when a is in fromStates(b), and exactly when the
\* edge (a, b) was added; no list has a state twice; a node exists exactly
\* for the ends of the added edges; and the lists are in the order of first
\* insertion: every builder call keeps the lists and puts new states at the
\* end, a first edge (a, b) putting b last in toStates(a) and a last in
\* fromStates(b).  a and b are the keys of the map: the states and every
\* options object addTransitions was handed before its last argument.
C34_GraphConsistency ==
    /\ States \subseteq DOMAIN transitions
    /\ \A e \in added : e[1] \in DOMAIN transitions /\ e[2] \in DOMAIN transitions
    /\ \A a \in DOMAIN transitions, b \in DOMAIN transitions :
          /\ Includes(transitions[a].toStates, b)
                <=> Includes(transitions[b].fromStates, a)
          /\ Includes(transitions[a].toStates, b) <=> <<a, b>> \in added
          /\ Count(transitions[a].toStates, b) <= 1
          /\ Count(transitions[a].fromStates, b) <= 1
    /\ \A s \in DOMAIN transitions :
          transitions[s].has <=> \E e \in added : e[1] = s \/ e[2] = s
    /\ \A c \in TransitionsChoices : ListsExtended(addTransitions(Machine, c[1], c[2]))
    /\ \A states \in PathChoices : ListsExtended(addPath(Machine, states))
    /\ \A a \in States, b \in States, loop \in BOOLEAN :
          LET r == addTransition(Machine, a, b, loop)
          IN  /\ ListsExtended(r)
              /\ <<a, b>> \notin added =>
                    /\ r.transitions[a].toStates[Len(r.transitions[a].toStates)] = b
                    /\ r.transitions[b].fromStates[Len(r.transitions[b].fromStates)] = a

\* addPath(0, 2, 1) was called after the edge from 0 to 1: state 0 has the
\* targets 1 and 2 in that order, and state 1 the sources 0 and 2.
C34_Witness ==
    /\ last.op = "addPath"
    /\ last.arg[1] = <<0, 2, 1>>
    /\ transitions[0].toStates = <<1, 2>>
    /\ transitions[1].fromStates = <<0, 2>>
    /\ transitions[0].fromStates = <<>>

\* The call that gave r has left every node and every list as it was.
GraphKept(r) ==
    /\ DOMAIN r.transitions = DOMAIN transitions
    /\ \A s \in DOMAIN transitions : r.transitions[s] = transitions[s]

\* The builder call that gave r has kept every node and every edge.
GraphGrown(r) ==
    /\ ListsExtended(r)
    /\ \A s \in DOMAIN transitions : transitions[s].has => r.transitions[s].has

\* C35: an edge that was added is in the graph in every later state; go(),
\* reset(), on(), setStateTimeout(), clearStateTimeout(), a timer that fires,
\* canTransition(), getValidTransitions() and serializeStateMachine() leave
\* every node and every list as it was, and the builders remove nothing.
C35_AppendOnly ==
    /\ \A e \in added :
          /\ Includes(transitions[e[1]].toStates, e[2])
          /\ Includes(transitions[e[2]].fromStates, e[1])
    /\ \A T \in States :
          /\ GraphKept(go(Machine, T, FALSE))
          /\ GraphKept(go(Machine, T, TRUE))
          /\ GraphKept(clearStateTimeout(Machine, T))
          /\ GraphKept(canTransitionCall(Machine, T))
          /\ \A h \in EntryHandlerNames : GraphKept(on(Machine, T, h))
          /\ \A options \in ValidOptions \cup {Options(0, Some(1), Undefined)} :
                GraphKept(setStateTimeout(Machine, T, options))
    /\ GraphKept(reset(Machine))
    /\ GraphKept(getValidTransitionsCall(Machine))
    /\ GraphKept(serializeStateMachineCall(Machine))
    /\ \A t \in scheduled : GraphKept(fire(Machine, t))
    /\ \A a \in States, b \in States, loop \in BOOLEAN :
          GraphGrown(addTransition(Machine, a, b, loop))
    /\ \A c \in TransitionsChoices : GraphGrown(addTransitions(Machine, c[1], c[2]))
    /\ \A states \in PathChoices : GraphGrown(addPath(Machine, states))

\* The timer of state 1 has fired and moved the machine to 2 along the edge
\* added; every edge added is still there: the one taken, the ones taken
\* before it, and the ones never taken.
C35_Witness ==
    /\ last.op = "fire"
    /\ last.arg = <<1>>
    /\ last.moved
    /\ current = 2
    /\ previous = 1
    /\ added = {<<0, 1>>, <<1, 2>>, <<2, 1>>, <<2, 0>>}
    /\ transitions[0].toStates = <<1>>
    /\ transitions[1].toStates = <<2>>
    /\ Len(transitions[2].toStates) = 2

\* C36: a go(T) with no edge from current to T and without throwOnInvalid
\* raises nothing, returns the current state, changes nothing, and reports
\* the rejection: a message is logged (warned is the console output of the
\* machine).
C36_RejectionDiagnostic ==
    \A T \in States :
        ~canTransition(Machine, T) =>
            LET r == go(Machine, T, FALSE)
            IN  /\ r.exc = "none"
                /\ r.ret = Some(current)
                /\ NoEffect(r)
                /\ r.warned

\* The machine m has no timer of state S, recorded or pending.
NoTimerOf(m, S) ==
    m.activeTimers[S] = 0 /\ \A t \in m.scheduled : t.state # S

\* S has no timer after any call the caller can make on m that neither
\* enters S anew, nor is reset(), nor setStateTimeout(S): a builder, on(), a
\* rejected go(), clearStateTimeout(), setStateTimeout() of another state, a
\* query, or the firing of a timer of another state.
NoTimerWithoutRearming(m, S) ==
    /\ \A c \in EntryEdges : NoTimerOf(addTransition(m, c[1], c[2], c[3]), S)
    /\ \A c \in EntryHandlers : NoTimerOf(on(m, c[1], c[2]), S)
    /\ \A T \in States :
          /\ ~canTransition(m, T) => NoTimerOf(go(m, T, FALSE), S)
          /\ NoTimerOf(clearStateTimeout(m, T), S)
          /\ NoTimerOf(canTransitionCall(m, T), S)
    /\ \A c \in EntryTimeouts :
          c[1] # S => NoTimerOf(setStateTimeout(m, c[1], c[2]), S)
    /\ NoTimerOf(getValidTransitionsCall(m), S)
    /\ NoTimerOf(serializeStateMachineCall(m), S)
    /\ \A t \in m.scheduled : t.state # S => NoTimerOf(fire(m, t), S)

\* C37: after a timer of the current state S has fired and the machine has
\* not been moved (the onExpire handler made no transition, or the target
\* was not valid), S has no timer, recorded or pending, and none after any
\* call that neither enters S anew, nor is reset(), nor setStateTimeout(S):
\* an arming yields one expiration at most.  reset() back to S and
\* setStateTimeout(S) arm it again.
C37_NoRepeatedExpiration ==
    \A t \in scheduled :
        t.state = current =>
            LET S == current
                r == fire(Machine, t)
            IN  (r.epoch = 0 /\ r.current = S) =>
                    /\ NoTimerOf(r, S)
                    /\ NoTimerWithoutRearming(r, S)
                    /\ \A c \in EntryTimeouts :
                          c[1] = S =>
                             ArmedIn(setStateTimeout(r, S, c[2]).scheduled,
                                     setStateTimeout(r, S, c[2]).activeTimers, S)

\* The timer of state 2 has fired in state 2 and its onExpire handler, which
\* makes no transition, was called: the machine is in 2, state 2 has its
\* config, and no timer of 2 is recorded or pending.
C37_Witness ==
    /\ last.op = "fire"
    /\ last.arg = <<2>>
    /\ ~last.moved
    /\ Len(last.calls) = 1
    /\ last.calls[1].h = "eNop"
    /\ current = 2
    /\ timeoutConfigs[2].set
    /\ activeTimers[2] = 0
    /\ \A t \in scheduled : t.state # 2

\* C38: only a go() that commits, made by the caller, by a handler or by an
\* expiration, calls entry handlers: the constructor, reset(), a rejected
\* go(), on(), setStateTimeout(), clearStateTimeout(), the builders, a timer
\* that fires for a state the machine has left and an expiration with an
\* invalid target call none; reset() calls none of the initial state.
C38_HandlersOnlyOnEntry ==
    /\ \A init \in InitialStates :
          construct(init).calls = <<>>
    /\ last.op \notin {"go", "fire"} => last.calls = <<>>
    /\ reset(Machine).calls = <<>>
    /\ \A h \in {"hNop", "hThrow"} : reset(on(Machine, initial, h)).calls = <<>>
    /\ \A T \in States :
          /\ ~canTransition(Machine, T) =>
                /\ go(Machine, T, FALSE).calls = <<>>
                /\ go(Machine, T, TRUE).calls = <<>>
          /\ clearStateTimeout(Machine, T).calls = <<>>
          /\ \A h \in {"hNop", "hThrow", "hGo1"} : on(Machine, T, h).calls = <<>>
          /\ \A options \in ValidOptions \cup {Options(0, Some(1), Undefined)} :
                setStateTimeout(Machine, T, options).calls = <<>>
    /\ \A a \in States, b \in States, loop \in BOOLEAN :
          addTransition(Machine, a, b, loop).calls = <<>>
    /\ \A c \in TransitionsChoices : addTransitions(Machine, c[1], c[2]).calls = <<>>
    /\ \A states \in PathChoices : addPath(Machine, states).calls = <<>>
    /\ \A t \in scheduled :
          LET r == fire(Machine, t)
          IN  /\ t.state # current => r.calls = <<>>
              /\ (AutoTimer(t) /\ ~canTransition(Machine, t.config.expireTo[1])) =>
                    r.calls = <<>>
              /\ r.epoch = 0 =>
                    \A i \in 1..Len(r.calls) : r.calls[i].h \in {"eNop", "eGo1"}

\* reset() was called in state 1 with a handler registered for the initial
\* state: the machine is in initial, its timer is armed, and no handler was
\* called.
C38_Witness ==
    /\ last.op = "reset"
    /\ last.calls = <<>>
    /\ cbMap[initial] # <<>>
    /\ current = initial
    /\ previous = initial
    /\ last.pending # {}
    /\ initial \notin last.pending
    /\ ArmedIn(scheduled, activeTimers, initial)


\* The entries of a snapshot that carry a timeout field.
WithTimeout(snap) ==
    {state \in DOMAIN snap.states : snap.states[state].timeout # <<>>}

\* The entries of a snapshot whose timeout field says isActive.
WithActiveTimer(snap) ==
    {state \in WithTimeout(snap) : snap.states[state].timeout[1].isActive}

\* C39: every snapshot agrees with itself: summary.totalStates is the number
\* of entries of states, summary.statesWithTimeouts the number of entries
\* with a timeout field and summary.activeTimers the number of entries whose
\* timeout says isActive, also when a state with a config or an armed timer
\* is not an end of any edge.
C39_SnapshotSelfConsistency ==
    LET snap == serializeStateMachine(Machine)
    IN  /\ snap.summary.totalStates = Cardinality(DOMAIN snap.states)
        /\ snap.summary.statesWithTimeouts = Cardinality(WithTimeout(snap))
        /\ snap.summary.activeTimers = Cardinality(WithActiveTimer(snap))

============================================================================
